---- MODULE Spec2Model ----
(***************************************************************************)
(* Model of kittens/remote_file/main.py: the remote_file kitten.  main     *)
(* asks for an action with a one-key menu and dispatches it to the open,   *)
(* edit or save flow.  The edit flow runs inside a ControlMaster scope     *)
(* (ssh control connection + scratch directory), polling an editor.        *)
(***************************************************************************)
EXTENDS Integers, Sequences, FiniteSets, TLC

(* ---------------------------- bounds ----------------------------------- *)
\* iterations of the edit poll loop that are followed
MaxPolls == 2
\* writes the editor makes to the staged file
MaxWrites == 2
\* keys read by one get_key_press call before the terminating one
MaxKeys == 2
\* "new name" choices followed in one save flow
MaxRounds == 1
\* the numbered files f-0.t .. f-<NumberedDepth>.t that may exist at start
NumberedDepth == 2

(* ---------------------------- values ----------------------------------- *)
\* exit statuses of a subprocess: zero and one non-zero representative
ExitCodes == {0, 255}
\* "no subprocess was run"
NoRc == -1
\* content of a file that a failed transfer left empty or partial
Partial == -1
\* Python's None as the result of handle_action / main (a path is a
\* sequence of tokens, and so is this value)
None == <<"None">>
\* main has not returned yet
Unset == <<"unset">>

VARIABLES
    pc,          \* position of the single flow of control
    action,      \* the action returned by ask_action
    response,    \* get_key_press: the local `response`
    keysRead,    \* keys consumed by the running get_key_press
    askEnd,      \* how ask_action's get_key_press ended
    payloadOk,   \* cli_opts.ssh_connection_data parses as SSHConnectionData
    result,      \* value returned by main
    shown,       \* messages passed to show_error so far
    raised,      \* places where an exception was raised so far
    estRc,       \* exit status of the establish command of __enter__
    chkRc,       \* exit status of the initial `-O check` of __enter__
    established, \* a control connection was established by this session
    exitAsked,   \* number of `-O exit` requests sent
    tdir,        \* scratch directory: "none", "exists", "removed"
    closeCount,  \* number of times __exit__ ran
    dlRc,        \* exit status of download()'s command
    mtime,       \* handle_action: the local `mtime`
    fileMtime,   \* modification time of master.dest on disk
    stagedExists,\* master.dest exists on disk
    staged,      \* content version of master.dest (0 = as on the remote)
    remote,      \* content version of the remote file
    editor,      \* editor process: "none", "running", "exited"
    log,         \* sequence of is_alive results and upload() calls
    polls,       \* poll-loop iterations so far
    finalProbe,  \* is_alive after the loop: "none", "alive", "dead"
    finalRc,     \* exit status of the final upload()'s command
    upRcs,       \* exit statuses of the intermediate upload() commands
    marker,      \* content of remote-file-last-used.txt, or NoFile
    fs,          \* local files: absolute path -> content
    dirs,        \* local directories (absolute paths)
    dest,        \* save_as / handle_action: the local `dest`
    lastUsedFile,\* save_as: the local `last_used_file`
    typed,       \* what PathCompleter().input() returned in this call
    rounds,      \* depth of the save_as recursion
    copyRc,      \* exit statuses of the copy commands run by save_output
    menu,        \* how the conflict menu ended, and on which file
    marker0,     \* the marker file when the program started
    fs0,         \* the local files when the program started
    explicit,    \* the non-blank destinations typed so far
    opener,      \* handle_result: "pending", "ran" (open_cmd), "skipped"
    port,        \* conn_data.port: NoPort (None) or a number
    cmd,         \* the argument vector simple_copy_command returned
    sess,        \* two ControlMaster objects: "new", "open", "failed", "closed"
    target,      \* their conn_data: [host, port]
    masters,     \* the control sockets behind which an ssh master runs
    lastProbe    \* their last is_alive result: "none", "alive", "dead"

mainVars == <<pc, action, response, keysRead, askEnd, payloadOk, result, shown,
             raised>>
masterVars == <<estRc, chkRc, established, exitAsked, tdir, closeCount>>
fileVars == <<dlRc, mtime, fileMtime, stagedExists, staged, remote>>
loopVars == <<editor, log, polls, finalProbe, finalRc, upRcs>>
editVars == <<masterVars, fileVars, loopVars>>

saveVars == <<marker, fs, dirs, dest, lastUsedFile, typed, rounds, copyRc,
              menu, marker0, fs0, explicit, cmd>>

\* state that only handle_result changes, and the connection data
pairVars == <<sess, target, masters, lastProbe>>
auxVars == <<opener, port, pairVars>>

vars == <<mainVars, editVars, saveVars, auxVars>>

(* ------------------------- get_key_press ------------------------------- *)
\* bytes the terminal can deliver: letters of both menus, an upper-case
\* letter, a key of neither menu, a byte that is not valid UTF-8, and the
\* two bytes of b'\x1b\x03'
Keys == {"a", "n", "o", "r", "c", "e", "s", "R", "x", "HIGH", "ESC", "ETX"}

\* q in b'\x1b\x03'
IsBreakByte(q) == q \in {"ESC", "ETX"}

\* q.decode('utf-8') raises for a lone byte >= 0x80
Decodes(q) == q # "HIGH"

\* str.lower()
Lower(q) == IF q = "R" THEN "r" ELSE q

\* the value of `response` after one byte q was read
KeyResponse(resp, q) ==
    IF IsBreakByte(q) THEN resp
    ELSE IF Decodes(q) THEN Lower(q)
    ELSE resp

\* whether the read loop ends after byte q
KeyEnds(q, allowed) ==
    \/ IsBreakByte(q)
    \/ Decodes(q) /\ Lower(q) \in allowed

(* ----------------------------- paths ----------------------------------- *)
\* A path is a sequence of tokens: "/", ".", "-", "~", "$D" and names.
RemotePath == <<"/", "etc", "/", "f", ".", "t">>
Home == <<"/", "h">>
Cwd == <<"/", "d">>
TempDir == <<"/", "tmp">>
\* the value of the environment variable D
EnvD == <<"/", "d">>
\* str(c) for the counters the rename loop reaches
Digits == <<"1", "2", "3", "4", "5", "6", "7", "8", "9">>

\* str.rfind of one token: 0 when absent
RFind(p, tok) ==
    LET hits == {i \in 1..Len(p) : p[i] = tok}
    IN IF hits = {} THEN 0 ELSE CHOOSE i \in hits : \A j \in hits : j <= i

\* os.path.basename
Basename(p) == SubSeq(p, RFind(p, "/") + 1, Len(p))

\* os.path.dirname
Dirname(p) ==
    LET i == RFind(p, "/")
    IN IF i = 0 THEN <<>>
       ELSE IF i = 1 THEN <<"/">>
       ELSE SubSeq(p, 1, i - 1)

\* os.path.join of two parts
Join(a, b) ==
    IF b # <<>> /\ b[1] = "/" THEN b
    ELSE IF a = <<>> \/ a[Len(a)] = "/" THEN a \o b
    ELSE a \o <<"/">> \o b

\* os.path.splitext: the extension starts at the last dot of the last
\* component, unless only dots precede it there
Splitext(p) ==
    LET sep == RFind(p, "/")
        dot == RFind(p, ".")
    IN IF dot > sep /\ \E k \in (sep + 1)..(dot - 1) : p[k] # "."
       THEN <<SubSeq(p, 1, dot - 1), SubSeq(p, dot, Len(p))>>
       ELSE <<p, <<>> >>

\* os.path.expanduser
Expanduser(p) ==
    IF p # <<>> /\ p[1] = "~" /\ (Len(p) = 1 \/ p[2] = "/")
    THEN Home \o Tail(p)
    ELSE p

\* os.path.expandvars
RECURSIVE Expandvars(_)
Expandvars(p) ==
    IF p = <<>> THEN <<>>
    ELSE (IF p[1] = "$D" THEN EnvD ELSE <<p[1]>>) \o Expandvars(Tail(p))

\* os.path.abspath (the inputs hold no "..", "//" or "." components)
Abspath(p) ==
    LET q == IF p # <<>> /\ p[1] = "/" THEN p ELSE Join(Cwd, p)
    IN IF Len(q) > 1 /\ q[Len(q)] = "/" THEN SubSeq(q, 1, Len(q) - 1) ELSE q

(* --------------------------- main -------------------------------------- *)
\* main's `except Exception` clause
Propagate(src) ==
    /\ raised' = raised \cup {src}
    /\ shown' = shown \cup {"unhandled"}
    /\ result' = None
    /\ pc' = "done"

\* the dictionary lookup that ends ask_action
ActionOf(resp) ==
    IF resp = "e" THEN "edit"
    ELSE IF resp = "o" THEN "open"
    ELSE IF resp = "s" THEN "save"
    ELSE "cancel"

AskAllowed == {"c", "e", "o", "s"}

\* one byte read by ask_action's get_key_press('ceos', 'c')
AskKey ==
    /\ UNCHANGED <<saveVars, auxVars>>
    /\ pc = "ask"
    /\ \E q \in Keys :
        /\ KeyEnds(q, AskAllowed) \/ keysRead < MaxKeys
        /\ response' = KeyResponse(response, q)
        /\ IF KeyEnds(q, AskAllowed)
           THEN /\ action' = ActionOf(response')
                /\ askEnd' = IF IsBreakByte(q) THEN "break" ELSE "key"
                /\ keysRead' = 0
                /\ pc' = "handle"
           ELSE /\ keysRead' = keysRead + 1
                /\ UNCHANGED <<action, pc, askEnd>>
    /\ UNCHANGED <<payloadOk, result, shown, raised, editVars>>

\* KeyboardInterrupt or EOFError raised by the read in ask_action
AskInterrupt ==
    /\ UNCHANGED <<saveVars, auxVars>>
    /\ pc = "ask"
    /\ action' = ActionOf(response)
    /\ askEnd' = "interrupt"
    /\ keysRead' = 0
    /\ pc' = "handle"
    /\ UNCHANGED <<response, payloadOk, result, shown, raised, editVars>>

(* ----------------------- ControlMaster --------------------------------- *)
\* subprocess.check_call returns only for a zero exit status
CheckCallOk(rc) == rc = 0

\* variant: the exit status of the initial check is ignored
EnterOkNoCheck(est, chk) == CheckCallOk(est)

\* __enter__ reaches mkdtemp only when both check_call's returned
EnterOk(est, chk) == CheckCallOk(est) /\ CheckCallOk(chk)

\* the value __exit__ returns: a true value suppresses the exception
ExitSuppresses == TRUE

\* variant: the scratch directory is not removed
CloseKeepsDir ==
    /\ exitAsked' = exitAsked + 1
    /\ closeCount' = closeCount + 1
    /\ UNCHANGED <<tdir, stagedExists>>

\* __exit__: ask the control connection to exit, remove the scratch dir
Close ==
    /\ exitAsked' = exitAsked + 1
    /\ tdir' = "removed"
    /\ stagedExists' = FALSE
    /\ closeCount' = closeCount + 1

\* an exception raised inside the `with` block: __exit__ runs, and its
\* return value decides between falling off the end of handle_action and
\* propagating to main
RaiseInScope(src) ==
    /\ Close
    /\ IF ExitSuppresses
       THEN /\ raised' = raised \cup {src}
            /\ result' = None
            /\ pc' = "done"
            /\ UNCHANGED shown
       ELSE Propagate(src)

\* variant: the error message is dropped
LeaveScopeSilent(msgs) ==
    /\ Close
    /\ result' = None
    /\ pc' = "done"
    /\ UNCHANGED <<shown, raised>>

\* leaving the `with` block without an exception; handle_action returns None
LeaveScope(msgs) ==
    /\ Close
    /\ shown' = shown \cup msgs
    /\ result' = None
    /\ pc' = "done"
    /\ UNCHANGED raised

\* variant: the exit status of the download command is ignored
DownloadOkAlways(rc) == TRUE

\* download()'s return value
DownloadOk(rc) == rc = 0

\* upload()'s return value
UploadOk(rc) == rc = 0

\* variant: the content as downloaded is sent, not the file as it is now
RemoteAfterUploadStale(rc) ==
    IF UploadOk(rc) THEN {0} ELSE {remote, Partial}

\* upload(): the remote `cat > path` leaves the staged content on success;
\* a failed command may have truncated the remote file or not touched it
RemoteAfterUpload(rc) ==
    IF UploadOk(rc) THEN {staged} ELSE {remote, Partial}

\* is_alive: whether the `-O check` probe exited zero
ProbeEvent(alive) == IF alive THEN "alive" ELSE "dead"

\* variant: the upload is not guarded by the probe
UploadAlways(alive) == TRUE

\* `if master.is_alive:` guarding an upload
UploadAllowed(alive) == alive

\* variant: an unchanged modification time also counts as a change
MtimeNotOlder(newmtime, oldmtime) == newmtime >= oldmtime

\* `if newmtime > mtime:`
MtimeAdvanced(newmtime, oldmtime) == newmtime > oldmtime

(* ------------------------- handle_action ------------------------------- *)
\* json.loads of the connection data, then the if/elif on action
HandleAction ==
    /\ UNCHANGED <<saveVars, auxVars>>
    /\ pc = "handle"
    /\ IF ~payloadOk
       THEN Propagate("payload")
       ELSE /\ pc' = CASE action = "open" -> "open"
                       [] action = "edit" -> "enter"
                       [] action = "save" -> "save"
                       [] OTHER -> "done"
            /\ result' = IF action \in {"open", "edit", "save"}
                         THEN result ELSE None
            /\ UNCHANGED <<shown, raised>>
    /\ UNCHANGED <<action, response, keysRead, askEnd, payloadOk, editVars>>

\* ControlMaster.__enter__
Enter ==
    /\ UNCHANGED <<saveVars, auxVars>>
    /\ pc = "enter"
    /\ \E est \in ExitCodes : \E chk \in ExitCodes :
        /\ estRc' = est
        /\ chkRc' = IF CheckCallOk(est) THEN chk ELSE NoRc
        /\ established' = (est = 0)
        /\ IF EnterOk(est, chkRc')
           THEN /\ tdir' = "exists"
                /\ pc' = "download"
                /\ UNCHANGED <<result, shown, raised>>
           ELSE /\ Propagate("open")
                /\ UNCHANGED tdir
    /\ UNCHANGED <<action, response, keysRead, askEnd, payloadOk, exitAsked,
                   closeCount, fileVars, loopVars>>

\* master.download() and the early return on failure
Download ==
    /\ UNCHANGED <<saveVars, auxVars>>
    /\ pc = "download"
    /\ \E rc \in ExitCodes :
        /\ dlRc' = rc
        /\ IF DownloadOk(rc)
           THEN /\ stagedExists' = TRUE
                /\ staged' = remote
                /\ pc' = "launch"
                /\ UNCHANGED <<result, shown, raised, exitAsked, tdir,
                               closeCount>>
           ELSE /\ staged' = Partial
                /\ LeaveScope({"download"})
    /\ UNCHANGED <<action, response, keysRead, askEnd, payloadOk, estRc, chkRc,
                   established, mtime, fileMtime, remote, loopVars>>

\* mtime = getmtime(dest); editor_process = Popen(editor + [dest])
LaunchEditor ==
    /\ UNCHANGED <<saveVars, auxVars>>
    /\ pc = "launch"
    /\ mtime' = fileMtime
    /\ \E started \in BOOLEAN :
        IF started
        THEN /\ editor' = "running"
             /\ pc' = "loop"
             /\ UNCHANGED <<result, shown, raised, exitAsked, tdir,
                            closeCount, stagedExists>>
        ELSE /\ RaiseInScope("editor")
             /\ UNCHANGED editor
    /\ UNCHANGED <<action, response, keysRead, askEnd, payloadOk, estRc, chkRc,
                   established, dlRc, fileMtime, staged, remote, log, polls,
                   finalProbe, finalRc, upRcs>>

\* one iteration of `while editor_process.poll() is None`
Poll ==
    /\ UNCHANGED <<saveVars, auxVars>>
    /\ pc = "loop"
    /\ editor = "running"
    /\ polls < MaxPolls
    /\ polls' = polls + 1
    /\ IF ~stagedExists
       THEN /\ RaiseInScope("getmtime")
            /\ UNCHANGED <<mtime, remote, log, upRcs>>
       ELSE /\ UNCHANGED <<pc, result, shown, raised, exitAsked, tdir,
                           closeCount, stagedExists>>
            /\ IF MtimeAdvanced(fileMtime, mtime)
               THEN /\ mtime' = fileMtime
                    /\ \E alive \in BOOLEAN :
                        IF UploadAllowed(alive)
                        THEN /\ log' = log \o <<ProbeEvent(alive), "upload">>
                             /\ \E rc \in ExitCodes :
                                    /\ remote' \in RemoteAfterUpload(rc)
                                    /\ upRcs' = Append(upRcs, rc)
                        ELSE /\ log' = Append(log, ProbeEvent(alive))
                             /\ UNCHANGED <<remote, upRcs>>
               ELSE UNCHANGED <<mtime, remote, log, upRcs>>
    /\ UNCHANGED <<action, response, keysRead, askEnd, payloadOk, estRc, chkRc,
                   established, dlRc, fileMtime, staged, editor, finalProbe,
                   finalRc>>

\* the statements after the loop: the final upload or the "died" error
FinalUpload ==
    /\ UNCHANGED <<saveVars, auxVars>>
    /\ pc = "loop"
    /\ editor = "exited"
    /\ \E alive \in BOOLEAN :
        /\ finalProbe' = ProbeEvent(alive)
        /\ IF UploadAllowed(alive)
           THEN /\ log' = log \o <<ProbeEvent(alive), "upload_final">>
                /\ IF ~stagedExists
                   THEN /\ RaiseInScope("upload")
                        /\ UNCHANGED <<remote, finalRc>>
                   ELSE \E rc \in ExitCodes :
                           /\ finalRc' = rc
                           /\ remote' \in RemoteAfterUpload(rc)
                           /\ LeaveScope(IF UploadOk(rc) THEN {}
                                         ELSE {"upload"})
           ELSE /\ log' = Append(log, ProbeEvent(alive))
                /\ LeaveScope({"died"})
                /\ UNCHANGED <<remote, finalRc>>
    /\ UNCHANGED <<action, response, keysRead, askEnd, payloadOk, estRc, chkRc,
                   established, dlRc, mtime, fileMtime, staged, editor,
                   polls, upRcs>>

(* --------------------------- the editor -------------------------------- *)
\* the editor saves the file; two saves may share one timestamp
EditorWrite ==
    /\ UNCHANGED <<saveVars, auxVars>>
    /\ editor = "running"
    /\ tdir = "exists"
    /\ staged < MaxWrites
    /\ staged' = staged + 1
    /\ stagedExists' = TRUE
    /\ fileMtime' \in {fileMtime, fileMtime + 1}
    /\ UNCHANGED <<mainVars, masterVars, dlRc, mtime, remote, loopVars>>

\* the editor removes the file (the first half of a save by replacement)
EditorUnlink ==
    /\ UNCHANGED <<saveVars, auxVars>>
    /\ editor = "running"
    /\ stagedExists
    /\ stagedExists' = FALSE
    /\ UNCHANGED <<mainVars, masterVars, dlRc, mtime, fileMtime, staged,
                   remote, loopVars>>

\* the editor process exits
EditorExit ==
    /\ UNCHANGED <<saveVars, auxVars>>
    /\ editor = "running"
    /\ editor' = "exited"
    /\ UNCHANGED <<mainVars, masterVars, fileVars, log, polls, finalProbe,
                   finalRc, upRcs>>

(* ------------------------- local file system --------------------------- *)
NoFile == <<"no file">>

\* os.path.isdir
IsDir(p) == Abspath(p) \in dirs

\* os.path.exists
Exists(p) == Abspath(p) \in DOMAIN fs \/ Abspath(p) \in dirs

\* the directories os.makedirs(d, exist_ok=True) leaves in place
Makedirs(d) ==
    LET a == Abspath(d)
    IN dirs \cup {a} \cup {SubSeq(a, 1, i - 1) : i \in {j \in 2..Len(a) : a[j] = "/"}}

\* save_output: open(dest_path, 'wb') truncates or creates the file, the
\* command's stdout fills it; a failed command leaves it empty or partial
WriteOutput(d, rc) ==
    [p \in DOMAIN fs \cup {Abspath(d)} |->
        IF p = Abspath(d) THEN (IF rc = 0 THEN "new" ELSE "partial")
        ELSE fs[p]]

\* variant: the exit status of the copy command is ignored
CopyOkAlways(rc) == TRUE

\* save_output's return value
CopyOk(rc) == rc = 0

(* ----------------------- simple_copy_command -------------------------- *)
\* conn_data.port is None
NoPort == -1
\* the ports of the connection data: None, zero, a one-digit and a
\* two-digit number
Ports == {NoPort, 0, 7, 22}
\* conn_data.binary and conn_data.hostname, as token sequences
Binary == <<"ssh">>
Hostname == <<"box">>
DigitChars == <<"0", "1", "2", "3", "4", "5", "6", "7", "8", "9">>

\* str() of a non-negative integer, as its sequence of decimal digits
RECURSIVE Str(_)
Str(n) ==
    IF n < 10 THEN <<DigitChars[n + 1]>>
    ELSE Str(n \div 10) \o <<DigitChars[(n % 10) + 1]>>

\* `if conn_data.port:` - None and 0 are false
PortGiven(prt) == prt # NoPort /\ prt # 0

\* simple_copy_command: every argument is a token sequence
SimpleCopyCommand(prt, path) ==
    <<Binary>>
        \o (IF PortGiven(prt) THEN << <<"-p">>, Str(prt) >> ELSE <<>>)
        \o <<Hostname, <<"cat">>, path>>

(* ------------------------------ open ----------------------------------- *)
\* the directory tempfile.mkdtemp() creates for the open action
OpenTemp == <<"/", "tmp", "/", "tmpopen">>

\* handle_action, action == 'open'
OpenCopy ==
    /\ UNCHANGED auxVars
    /\ pc = "open"
    /\ dirs' = dirs \cup {OpenTemp}
    /\ cmd' = SimpleCopyCommand(port, RemotePath)
    /\ dest' = Join(OpenTemp, Basename(RemotePath))
    /\ \E rc \in ExitCodes :
        /\ fs' = WriteOutput(dest', rc)
        /\ copyRc' = Append(copyRc, rc)
        /\ IF CopyOk(rc)
           THEN /\ result' = dest'
                /\ UNCHANGED shown
           ELSE /\ result' = None
                /\ shown' = shown \cup {"copy"}
    /\ pc' = "done"
    /\ UNCHANGED <<action, response, keysRead, askEnd, payloadOk, raised, editVars,
                   marker, lastUsedFile, typed, rounds, menu, marker0, fs0,
                   explicit>>

(* --------------------------- handle_result ---------------------------- *)
\* variant: the opener is run whatever main returned
OpenerRunsAlways(data) == TRUE

\* `if data:` - None is false, a path (a non-empty string) is true
OpenerRuns(data) == data # None /\ data # <<>>

\* handle_result, called by kitty with the value main returned
HandleResult ==
    /\ pc = "done"
    /\ opener = "pending"
    /\ opener' = IF OpenerRuns(result) THEN "ran" ELSE "skipped"
    /\ UNCHANGED <<mainVars, editVars, saveVars, port, pairVars>>

(* ------------------------------ save_as -------------------------------- *)
\* what the user can answer at the destination prompt: nothing, a
\* directory, a file under ~, a relative name without extension, and a
\* name built with an environment variable
TypedInputs == {
    <<>>,
    <<"/", "d", "/">>,
    <<"~", "/", "f", ".", "t">>,
    <<"g">>,
    <<"$D", "/", "f", "-", "1", ".", "t">> }

\* variant: the marker file is not read
DefaultDestTemp(m) == Join(TempDir, Basename(RemotePath))

\* last_used_file: the default offered at the prompt
DefaultDest(m) ==
    Join(IF m = NoFile THEN TempDir ELSE m, Basename(RemotePath))

\* lines 234-236: expansion, then the basename is appended to a directory
ResolveDest(t) ==
    LET d == Expandvars(Expanduser(t))
    IN IF IsDir(d) THEN Join(d, Basename(RemotePath)) ELSE d

\* lines 233-240: the destination for the answer t
DestFor(t, default) == IF t # <<>> THEN ResolveDest(t) ELSE default

\* variant: the marker is written before the directory case is resolved
MarkerAfterRaw(t) ==
    IF t # <<>> THEN Dirname(Abspath(Expandvars(Expanduser(t)))) ELSE marker

\* lines 237-238: the marker file after the answer t
MarkerAfter(t) ==
    IF t # <<>> THEN Dirname(Abspath(ResolveDest(t))) ELSE marker

\* f'{b}-{c}{ext}' with b, ext = os.path.splitext(d)
Numbered(d, c) ==
    LET s == Splitext(d) IN s[1] \o <<"-", Digits[c]>> \o s[2]

\* lines 253-259: the rename loop, entered with q = dest and c = 0
RECURSIVE RenameLoop(_, _, _)
RenameLoop(d, q, c) ==
    IF Exists(q) THEN RenameLoop(d, Numbered(d, c + 1), c + 1) ELSE q

\* variant: the counter starts one too high
AutoRenameSkipsOne(d) == RenameLoop(d, d, 1)

AutoRename(d) == RenameLoop(d, d, 0)

ConflictAllowed == {"a", "n", "o", "r"}

\* lines 213-241: read the marker, prompt, resolve, write the marker
SavePrompt ==
    /\ UNCHANGED <<auxVars, cmd>>
    /\ pc = "save"
    /\ lastUsedFile' = DefaultDest(marker)
    /\ \/ /\ pc' = "done"
          /\ result' = None
          /\ typed' = <<"interrupt">>
          /\ UNCHANGED <<marker, dest, response, explicit>>
       \/ \E t \in TypedInputs :
            /\ typed' = t
            /\ explicit' = IF t # <<>> THEN Append(explicit, t) ELSE explicit
            /\ dest' = DestFor(t, lastUsedFile')
            /\ marker' = MarkerAfter(t)
            /\ IF Exists(dest')
               THEN /\ pc' = "conflict"
                    /\ response' = "a"
               ELSE /\ pc' = "copy"
                    /\ UNCHANGED response
            /\ UNCHANGED result
    /\ UNCHANGED <<action, keysRead, askEnd, payloadOk, shown, raised, editVars, fs,
                   dirs, rounds, copyRc, menu, marker0, fs0>>

\* lines 246-259: what save_as does with get_key_press's return value
ConflictOutcome(resp) ==
    IF resp = "a" THEN "abort"
    ELSE IF resp = "n" THEN "newname"
    ELSE IF resp = "r" THEN "rename"
    ELSE "overwrite"

\* the end of the conflict menu with return value resp
ConflictDone(resp, how) ==
    /\ menu' = [end |-> how, file |-> dest]
    /\ keysRead' = 0
    /\ CASE ConflictOutcome(resp) = "abort" ->
                /\ pc' = "done"
                /\ result' = None
                /\ UNCHANGED <<dest, rounds>>
         [] ConflictOutcome(resp) = "newname" ->
                /\ pc' = "save"
                /\ rounds' = rounds + 1
                /\ UNCHANGED <<dest, result>>
         [] ConflictOutcome(resp) = "rename" ->
                /\ pc' = "copy"
                /\ dest' = AutoRename(dest)
                /\ UNCHANGED <<rounds, result>>
         [] OTHER ->
                /\ pc' = "copy"
                /\ UNCHANGED <<dest, rounds, result>>

\* one byte read by get_key_press('anor', 'a') in the conflict menu
ConflictKey ==
    /\ UNCHANGED <<auxVars, cmd>>
    /\ pc = "conflict"
    /\ \E q \in Keys :
        /\ KeyEnds(q, ConflictAllowed) \/ keysRead < MaxKeys
        /\ ~(KeyEnds(q, ConflictAllowed) /\ KeyResponse(response, q) = "n")
             \/ rounds < MaxRounds
        /\ response' = KeyResponse(response, q)
        /\ IF KeyEnds(q, ConflictAllowed)
           THEN ConflictDone(response', IF IsBreakByte(q) THEN "break" ELSE "key")
           ELSE /\ keysRead' = keysRead + 1
                /\ UNCHANGED <<pc, result, dest, rounds, menu>>
    /\ UNCHANGED <<action, askEnd, payloadOk, shown, raised, editVars, marker, fs,
                   dirs, lastUsedFile, typed, copyRc, marker0, fs0, explicit>>

\* KeyboardInterrupt or EOFError raised by the read in the conflict menu
ConflictInterrupt ==
    /\ UNCHANGED <<auxVars, cmd>>
    /\ pc = "conflict"
    /\ ConflictDone(response, "interrupt")
    /\ UNCHANGED <<action, response, askEnd, payloadOk, shown, raised, editVars,
                   marker, fs, dirs, lastUsedFile, typed, copyRc, marker0,
                   fs0, explicit>>

\* lines 260-264: create the parent directory, run the copy command
SaveCopy ==
    /\ UNCHANGED auxVars
    /\ pc = "copy"
    /\ dirs' = IF Dirname(dest) # <<>> THEN Makedirs(Dirname(dest)) ELSE dirs
    /\ cmd' = SimpleCopyCommand(port, RemotePath)
    /\ \E rc \in ExitCodes :
        /\ fs' = WriteOutput(dest, rc)
        /\ copyRc' = Append(copyRc, rc)
        /\ shown' = IF CopyOk(rc) THEN shown ELSE shown \cup {"copy"}
    /\ result' = None
    /\ pc' = "done"
    /\ UNCHANGED <<action, response, keysRead, askEnd, payloadOk, raised, editVars,
                   marker, dest, lastUsedFile, typed, rounds, menu, marker0,
                   fs0, explicit>>

(* ------------------- two ControlMasters of one process ----------------- *)
Sessions == {1, 2}
\* os.getpid(): both objects live in the same process
Pid == 1
\* the port ssh substitutes for %p when no -p is given
DefaultPort == 22
PairHosts == {"box", "hub"}
PairPorts == {NoPort, 22, 2222}

\* ControlPath=~/.ssh/kitty-master-{os.getpid()}-%r@%h:%p as ssh expands it
ControlPath(s) ==
    [pid |-> Pid, host |-> target[s].host,
     port |-> IF PortGiven(target[s].port) THEN target[s].port
              ELSE DefaultPort]

\* __enter__: ControlMaster=auto starts a master behind the control path
\* unless one is there already; the check then finds it
PairEnter(s) ==
    /\ pc = "pair"
    /\ sess[s] = "new"
    /\ \E est \in ExitCodes :
        IF CheckCallOk(est)
        THEN /\ masters' = masters \cup {ControlPath(s)}
             /\ sess' = [sess EXCEPT ![s] = "open"]
        ELSE /\ sess' = [sess EXCEPT ![s] = "failed"]
             /\ UNCHANGED masters
    /\ UNCHANGED <<mainVars, editVars, saveVars, opener, port, target,
                   lastProbe>>

\* is_alive: `-O check` succeeds when a master runs behind the control path
PairProbe(s) ==
    /\ pc = "pair"
    /\ sess[s] = "open"
    /\ lastProbe' =
        [lastProbe EXCEPT ![s] = ProbeEvent(ControlPath(s) \in masters)]
    /\ UNCHANGED <<mainVars, editVars, saveVars, opener, port, sess, target,
                   masters>>

\* __exit__: `-O exit` stops the master behind the control path
PairExit(s) ==
    /\ pc = "pair"
    /\ sess[s] = "open"
    /\ masters' = masters \ {ControlPath(s)}
    /\ sess' = [sess EXCEPT ![s] = "closed"]
    /\ UNCHANGED <<mainVars, editVars, saveVars, opener, port, target,
                   lastProbe>>

(* --------------------------- specification ----------------------------- *)
\* the directories that exist when the program starts
InitDirs == {<<"/">>, TempDir, Home, Cwd}

\* files that may exist when the program starts
Family == {<<"/", "d", "/", "f", "-", "0", ".", "t">>}
            \cup {<<"/", "d", "/", "f", "-", Digits[k], ".", "t">> : k \in 1..NumberedDepth}
CandidateFiles == {<<"/", "tmp", "/", "f", ".", "t">>,
                   <<"/", "d", "/", "f", ".", "t">>,
                   <<"/", "d", "/", "g">>} \cup Family

InitEdit ==
    /\ estRc = NoRc /\ chkRc = NoRc /\ established = FALSE
    /\ exitAsked = 0 /\ tdir = "none" /\ closeCount = 0
    /\ dlRc = NoRc /\ mtime = 0 /\ fileMtime = 0
    /\ stagedExists = FALSE /\ staged = 0 /\ remote = 0
    /\ editor = "none" /\ log = <<>> /\ polls = 0 /\ upRcs = <<>>
    /\ finalProbe = "none" /\ finalRc = NoRc

InitSave(files, m) ==
    /\ marker = m /\ marker0 = m
    /\ fs = [p \in files |-> "old"] /\ fs0 = fs
    /\ dirs = InitDirs
    /\ dest = <<>> /\ lastUsedFile = <<>> /\ typed = <<>>
    /\ rounds = 0 /\ copyRc = <<>> /\ explicit = <<>> /\ cmd = <<>>
    /\ menu = [end |-> "none", file |-> <<>>]

\* the program itself makes no second ControlMaster
InitPair ==
    /\ sess = [s \in Sessions |-> "new"]
    /\ target = [s \in Sessions |-> [host |-> "box", port |-> NoPort]]
    /\ masters = {}
    /\ lastProbe = [s \in Sessions |-> "none"]

\* the program as started by kitty: main is about to call ask_action
Init ==
    /\ pc = "ask" /\ action = "none" /\ response = "c" /\ keysRead = 0
    /\ askEnd = "none"
    /\ payloadOk \in BOOLEAN
    /\ result = Unset /\ shown = {} /\ raised = {}
    /\ opener = "pending"
    /\ port \in Ports
    /\ InitPair
    /\ InitEdit
    /\ \E files \in {{}, {<<"/", "tmp", "/", "f", ".", "t">>}} :
         InitSave(files, NoFile)

Next ==
    \/ AskKey \/ AskInterrupt \/ HandleAction
    \/ OpenCopy
    \/ Enter \/ Download \/ LaunchEditor \/ Poll \/ FinalUpload
    \/ EditorWrite \/ EditorUnlink \/ EditorExit
    \/ SavePrompt \/ ConflictKey \/ ConflictInterrupt \/ SaveCopy
    \/ HandleResult

Spec == Init /\ [][Next]_vars

\* the save flow alone, entered by handle_action with action == 'save',
\* over every initial set of local files and marker file
SaveInit ==
    /\ pc = "save" /\ action = "save" /\ response = "s" /\ keysRead = 0
    /\ askEnd = "key"
    /\ payloadOk = TRUE
    /\ result = Unset /\ shown = {} /\ raised = {}
    /\ opener = "pending"
    /\ port = 22
    /\ InitPair
    /\ InitEdit
    /\ \E files \in SUBSET CandidateFiles :
       \E m \in {NoFile, <<"/", "d">>} :
         InitSave(files, m)

SaveNext == SavePrompt \/ ConflictKey \/ ConflictInterrupt \/ SaveCopy

SaveSpec == SaveInit /\ [][SaveNext]_vars

\* two ControlMaster objects made by one process, for every pair of
\* connection data; masters stop only when asked to exit
PairInit ==
    /\ pc = "pair" /\ action = "edit" /\ response = "e" /\ keysRead = 0
    /\ askEnd = "key"
    /\ payloadOk = TRUE
    /\ result = Unset /\ shown = {} /\ raised = {}
    /\ opener = "pending"
    /\ port = NoPort
    /\ InitEdit
    /\ InitSave({}, NoFile)
    /\ sess = [s \in Sessions |-> "new"]
    /\ target \in [Sessions -> [host : PairHosts, port : PairPorts]]
    /\ masters = {}
    /\ lastProbe = [s \in Sessions |-> "none"]

PairNext == \E s \in Sessions : PairEnter(s) \/ PairProbe(s) \/ PairExit(s)

PairSpec == PairInit /\ [][PairNext]_vars

(* ------------------------------ claims --------------------------------- *)
IsUpload(e) == e \in {"upload", "upload_final"}

\* C1 as stated: every upload() call directly follows an is_alive probe
\* that returned true; after a probe has returned false no upload() is
\* called any more, and the flow does not return before the user was shown
\* the "master process died" error.
C1Original ==
    /\ \A i \in DOMAIN log :
         IsUpload(log[i]) => i > 1 /\ log[i - 1] = "alive"
    /\ \A i \in DOMAIN log : \A j \in DOMAIN log :
         log[i] = "dead" /\ j > i => ~IsUpload(log[j])
    /\ pc = "done" /\ (\E i \in DOMAIN log : log[i] = "dead")
         => "died" \in shown

\* C1 amended: every upload() call directly follows an is_alive probe that
\* returned true, so a probe that returned false is never directly followed
\* by an upload(); and when the probe after the loop returned false, it is
\* the last event of the session and the user was shown the "master process
\* died" error.
C1Theorem ==
    /\ \A i \in DOMAIN log :
         IsUpload(log[i]) => i > 1 /\ log[i - 1] = "alive"
    /\ finalProbe = "dead"
         => /\ log[Len(log)] = "dead"
            /\ "died" \in shown
            /\ pc = "done"

\* a false probe during editing, a later upload, and a false final probe
C1Witness ==
    /\ pc = "done"
    /\ Len(log) = 4
    /\ log[1] = "dead" /\ log[3] = "upload"
    /\ finalProbe = "dead"

\* C2: when is_alive returns false after the editor has exited, no final
\* upload is called and no upload command ran for it, the user is shown the
\* connection-lost error and the flow returns None, whatever the earlier
\* probes returned.
C2Theorem ==
    finalProbe = "dead"
        => /\ \A i \in DOMAIN log : log[i] # "upload_final"
           /\ finalRc = NoRc
           /\ shown = {"died"}
           /\ result = None
           /\ pc = "done"

\* liveness was true during editing (an intermediate upload ran) and false
\* at the final step
C2Witness ==
    /\ finalProbe = "dead"
    /\ \E i \in DOMAIN log : log[i] = "upload"

\* C3: once open() has succeeded, close() has not run while the flow is in
\* the session scope, and when the flow has returned close() ran exactly
\* once: one exit request was sent and the scratch directory is gone.
C3Theorem ==
    estRc = 0 /\ chkRc = 0
        => /\ pc \in {"download", "launch", "loop"}
               => closeCount = 0 /\ exitAsked = 0 /\ tdir = "exists"
           /\ pc = "done"
               => closeCount = 1 /\ exitAsked = 1 /\ tdir = "removed"
           /\ pc \in {"download", "launch", "loop", "done"}

\* the flow returned after an exception was raised inside the scope
C3Witness ==
    /\ pc = "done"
    /\ raised \cap {"editor", "getmtime", "upload"} # {}
    /\ closeCount = 1

\* C4: when the program has finished and an exception was raised by a flow,
\* the user was shown the 'Failed with unhandled exception' failure.
C4Claim ==
    pc = "done" /\ raised # {} => "unhandled" \in shown

\* C5: after the editor was launched, the scratch directory is removed only
\* when the final upload succeeded or the user was shown an error.
C5Claim ==
    editor # "none" /\ tdir = "removed"
        => finalRc = 0 \/ shown # {}

\* C6: when download() returned false, the failure was reported, the flow
\* has returned None, no editor was launched, no is_alive probe was made
\* and upload() was not called.
C6Theorem ==
    dlRc \notin {NoRc, 0}
        => /\ pc = "done"
           /\ result = None
           /\ shown = {"download"}
           /\ editor = "none"
           /\ log = <<>>
           /\ finalProbe = "none" /\ finalRc = NoRc

\* the download command exited non-zero
C6Witness ==
    dlRc = 255 /\ pc = "done" /\ tdir = "removed"

\* C7: open() succeeds exactly when the establish command and the initial
\* check exited zero; when it failed the user was shown a failure and the
\* flow is over with no scratch directory, download, editor or upload.
C7Theorem ==
    /\ estRc # NoRc => ((tdir # "none") <=> (estRc = 0 /\ chkRc = 0))
    /\ estRc \notin {NoRc, 0} \/ chkRc \notin {NoRc, 0}
        => /\ pc = "done"
           /\ "unhandled" \in shown
           /\ tdir = "none" /\ ~stagedExists
           /\ dlRc = NoRc
           /\ editor = "none"
           /\ log = <<>> /\ finalRc = NoRc

\* the connection was established and failed its initial check
C7Witness ==
    estRc = 0 /\ chkRc = 255 /\ pc = "done"

\* content of the local file f
Content(files, f) ==
    IF Abspath(f) \in DOMAIN files THEN files[Abspath(f)] ELSE "absent"

\* C8: after a conflict menu, the existing file was replaced only if the
\* user pressed the overwrite key; and if the user pressed the abort key,
\* or ended the menu with Escape, Ctrl-C or an interrupt, no copy command
\* ran and the local files are as they were.
C8Claim ==
    pc = "done" /\ menu.end # "none"
        => /\ Content(fs, menu.file) # Content(fs0, menu.file)
               => menu.end = "key" /\ response = "o"
           /\ menu.end \in {"break", "interrupt"}
                \/ (menu.end = "key" /\ response = "a")
               => copyRc = <<>> /\ fs = fs0

\* C9: the name chosen by auto-rename of dest = b + ext is b-k+ext for the
\* smallest k >= 1 such that b-k+ext does not exist, and it does not exist
\* when it is chosen.
C9Theorem ==
    pc = "copy" /\ menu.end # "none" /\ ConflictOutcome(response) = "rename"
        => \E k \in 1..Len(Digits) :
              /\ dest = Splitext(menu.file)[1] \o <<"-", Digits[k]>>
                            \o Splitext(menu.file)[2]
              /\ ~Exists(dest)
              /\ \A j \in 1..(k - 1) : Exists(Numbered(menu.file, j))

\* f.t, f-0.t and f-1.t exist and f-2.t was chosen
C9Witness ==
    /\ pc = "copy" /\ ConflictOutcome(response) = "rename"
    /\ menu.file = <<"/", "d", "/", "f", ".", "t">>
    /\ <<"/", "d", "/", "f", "-", "0", ".", "t">> \in DOMAIN fs
    /\ dest = <<"/", "d", "/", "f", "-", "2", ".", "t">>

\* C10: the marker file is as it was at the start as long as every
\* destination prompt was answered blank, and otherwise it holds the parent
\* directory of the last explicit destination, after expansion and after
\* the remote base name was appended to a directory.
C10Theorem ==
    marker = IF explicit = <<>> THEN marker0
             ELSE Dirname(Abspath(ResolveDest(explicit[Len(explicit)])))

\* an explicit directory was typed, the file in it existed, and the copy
\* that followed the conflict menu failed
C10Witness ==
    /\ pc = "done"
    /\ explicit = << <<"/", "d", "/">> >>
    /\ marker = <<"/", "d">> /\ marker0 = NoFile
    /\ menu.end # "none"
    /\ copyRc = <<255>>

\* the explicit destinations typed before the prompt of the current call
ExplicitBefore ==
    IF typed \notin {<<>>, <<"interrupt">>}
    THEN SubSeq(explicit, 1, Len(explicit) - 1)
    ELSE explicit

\* C11 as stated: the default offered by every destination prompt, also
\* after "new name", is the default computed when the flow started.
C11Original ==
    lastUsedFile # <<>> => lastUsedFile = DefaultDest(marker0)

\* C11 amended: "new name" re-runs save_as from its first line, so the
\* default offered by a prompt is the remote base name in the directory the
\* marker file names at that moment: the initial default while every
\* earlier answer was blank, otherwise the parent directory of the last
\* explicit destination typed before this prompt.
C11Theorem ==
    lastUsedFile # <<>> =>
        lastUsedFile =
            IF ExplicitBefore = <<>>
            THEN Join(IF marker0 = NoFile THEN TempDir ELSE marker0,
                      Basename(RemotePath))
            ELSE Join(Dirname(Abspath(ResolveDest(
                          ExplicitBefore[Len(ExplicitBefore)]))),
                      Basename(RemotePath))

\* after an explicit destination and "new name", the second prompt offered
\* a default in the directory typed in the first
C11Witness ==
    /\ rounds = 1
    /\ marker0 = NoFile
    /\ typed = <<>>
    /\ explicit = << <<"g">> >>
    /\ lastUsedFile = <<"/", "d", "/", "f", ".", "t">>

\* C12: main returns a path only for action 'open' whose copy exited zero,
\* and that path is the remote base name inside the directory mkdtemp just
\* created; every other outcome returns None; 'cancel' runs no command and
\* creates nothing; handle_result runs the opener exactly when the result
\* is a path.
C12Theorem ==
    /\ pc = "done"
        => /\ result # None <=> (action = "open" /\ copyRc = <<0>>)
           /\ result # None
               => /\ result = OpenTemp \o <<"/">> \o <<"f", ".", "t">>
                  /\ Abspath(result) \in DOMAIN fs
                  /\ OpenTemp \in dirs \ InitDirs
    /\ action = "cancel"
        => /\ estRc = NoRc /\ dlRc = NoRc /\ copyRc = <<>> /\ log = <<>>
           /\ tdir = "none" /\ fs = fs0 /\ dirs = InitDirs
    /\ opener = "ran" => result \notin {None, Unset}
    /\ opener = "skipped" => result = None

\* the opener ran on the file a successful 'open' returned
C12Witness ==
    opener = "ran" /\ action = "open" /\ copyRc = <<0>>

\* C13: with port None the copy command holds no '-p' argument; with any
\* numeric port, 0 included, it is exactly
\* [binary, '-p', str(port), hostname, 'cat', remotePath].
C13Claim ==
    cmd # <<>>
        => IF port = NoPort
           THEN \A i \in DOMAIN cmd : cmd[i] # <<"-p">>
           ELSE cmd = <<Binary, <<"-p">>, Str(port), Hostname, <<"cat">>,
                        RemotePath>>

\* C14: when the save flow's copy command exited non-zero, the failure was
\* shown and the destination is on disk as the command left it, neither
\* deleted nor restored to its old content; when it exited zero, nothing
\* was shown and the destination holds the remote content.
C14Theorem ==
    pc = "done" /\ copyRc # <<>>
        => /\ Len(copyRc) = 1
           /\ Abspath(dest) \in DOMAIN fs
           /\ \A p \in DOMAIN fs0 \ {Abspath(dest)} :
                p \in DOMAIN fs /\ fs[p] = fs0[p]
           /\ IF copyRc[1] = 0
              THEN shown = {} /\ Content(fs, dest) = "new"
              ELSE shown = {"copy"} /\ Content(fs, dest) = "partial"

\* an existing file was overwritten and the copy failed
C14Witness ==
    /\ pc = "done"
    /\ copyRc = <<255>>
    /\ menu.end = "key" /\ response = "o"
    /\ Content(fs0, dest) = "old"
    /\ Content(fs, dest) = "partial"

\* C15: closing one ControlMaster never makes another, still open one of
\* the same process report dead, also when both have the same connection
\* data.  (In PairSpec a master stops only when asked to exit.)
C15Claim ==
    \A s \in Sessions : sess[s] = "open" => lastProbe[s] # "dead"

\* number of final upload() calls
FinalUploads == Cardinality({i \in DOMAIN log : log[i] = "upload_final"})

\* C16, one step of the edit flow: the editor is launched only after a
\* successful download; an intermediate upload happens only in the loop
\* while the editor runs, right after a poll saw the modification time
\* above `mtime`, it shows nothing and leaves the flow in the loop whatever
\* its exit status; such a poll updates `mtime` whether or not the probe
\* was alive; the step after the loop runs once, after the editor exited,
\* ends the flow and calls at most one final upload().
C16Step ==
    /\ editor = "none" /\ editor' # "none"
        => dlRc = 0 /\ pc = "launch" /\ pc' = "loop" /\ log = <<>>
    /\ upRcs' # upRcs
        => /\ pc = "loop" /\ editor = "running" /\ finalProbe = "none"
           /\ fileMtime > mtime /\ mtime' = fileMtime
           /\ log' = log \o <<"alive", "upload">>
           /\ pc' = "loop" /\ shown' = shown /\ raised' = raised
    /\ pc = "loop" /\ polls' # polls /\ stagedExists /\ fileMtime > mtime
        => mtime' = fileMtime /\ pc' = "loop"
    /\ pc = "loop" /\ log' # log /\ mtime' = mtime
        => finalProbe' # "none"
    /\ finalProbe' # finalProbe
        => /\ finalProbe = "none" /\ editor = "exited"
           /\ pc = "loop" /\ pc' = "done"
           /\ upRcs' = upRcs
    /\ FinalUploads' <= 1
    /\ FinalUploads' > 0 => finalProbe' = "alive"

C16Theorem == [][C16Step]_vars

\* an intermediate upload failed silently, a later one ran, and the final
\* upload succeeded
C16Witness ==
    /\ pc = "done"
    /\ Len(upRcs) = 2 /\ upRcs[1] = 255
    /\ finalRc = 0
    /\ shown = {}

\* C17: get_key_press returns a character of `allowed` or the default, and
\* the default when the read ended with Escape, Ctrl-C or an interrupt,
\* whatever was typed before: here for ask_action's ('ceos', 'c') and for
\* the conflict menu's ('anor', 'a').
C17Claim ==
    /\ pc = "handle"
        => /\ response \in AskAllowed
           /\ askEnd \in {"break", "interrupt"} => response = "c"
    /\ pc = "copy" /\ menu.end # "none" /\ menu.file = dest
        => /\ response \in ConflictAllowed
           /\ menu.end \in {"break", "interrupt"} => response = "a"

\* C18: when the final upload succeeded, the remote file holds the staged
\* file's content as it was when the editor exited.
C18Theorem ==
    finalRc = 0
        => /\ remote = staged
           /\ editor = "exited" /\ finalProbe = "alive" /\ pc = "done"

\* the first change was not uploaded because the probe returned false, the
\* second write came after the last poll, and the final upload succeeded
C18Witness ==
    /\ finalRc = 0
    /\ staged = 2
    /\ fileMtime > mtime
    /\ log = <<"dead", "alive", "upload_final">>

\* C19: when the program has finished, a control connection this session
\* established has been asked to exit.
C19Claim ==
    pc = "done" /\ established => exitAsked >= 1

\* C20: the scratch directory is not removed while the editor process is
\* running.
C20Claim ==
    tdir = "removed" => editor # "running"

====
